---- MODULE Spec2Model ----
(***************************************************************************)
(* Model of solutions/hello-2-nolibs/src/main.c: the root task looks up    *)
(* untyped memory, retypes it into a TCB and a scheduling context, binds a *)
(* round-robin policy, configures the TCB, writes its registers and        *)
(* resumes it.                                                             *)
(*                                                                         *)
(* main() is split at its kernel invocations: one action per invocation    *)
(* together with the ZF_LOGF_IFERR check that follows it.  The seL4 kernel *)
(* and the boot info it hands over are the environment: boot info is       *)
(* chosen in Init, and every invocation either fails (any nonzero error)   *)
(* or, when its capability arguments name objects of the right kind, may   *)
(* succeed with the effect the seL4 API documents.                         *)
(***************************************************************************)
EXTENDS Integers, Naturals, Sequences, FiniteSets, TLC

(* ------------------------------ bounds -------------------------------- *)
\* seL4_Word, seL4_CPtr and uintptr_t are modelled WordBits wide (scaled down from 32/64)
WordBits == 13
\* largest number of untyped caps listed in the boot info
MaxUntyped == 2
\* largest sizeBits of an untyped listed in the boot info
MaxSizeBits == 3
\* largest number of free slots in info->empty
MaxEmpty == 2
\* the stack array is linked at 8 * k, k in 0..MaxStackBase
MaxStackBase == 1
\* largest number of nodes (one scheduling-control cap per node)
MaxNodes == 1
\* the template goes through the versions 0..MaxVersion
MaxVersion == 2

(* ------------------------- program constants -------------------------- *)
seL4_CapNull == 0
seL4_CapInitThreadTCB == 1
seL4_CapInitThreadCNode == 2
seL4_CapInitThreadPD == 3
seL4_NoError == 0
\* microseconds per millisecond (utils/time.h)
US_IN_MS == 1000
\* number of uint64_t elements of thread_2_stack
THREAD_2_STACK_SIZE == 512
\* sizeof(uint64_t)
SizeofUint64 == 8
\* the address of the function thread_2 (some nonzero code address)
thread_2 == 64

\* sizeof(seL4_Word) of the builds the tutorial supports (ia32, x86_64)
WordSizes == {4, 8}
\* seL4_TCBBits and seL4_MinSchedContextBits of the build, scaled down with MaxSizeBits
ObjectBits == {1, 2}

WordMod == 2 ^ WordBits

\* conversion of a C integer to seL4_Word / seL4_CPtr / uintptr_t
ToWord(x) == x % WordMod

\* BIT(n) of utils/arith.h: 1ul << n
BIT(n) == ToWord(2 ^ n)

\* the names of the registers of seL4_UserContext
RegNames == {"eip", "esp", "eflags", "eax", "ebx", "ecx", "edx", "esi", "edi", "ebp",
             "tls_base", "fs", "gs"}

VARIABLES
    info,                \* the seL4_BootInfo the kernel hands to the root task
    build,               \* what the build fixes: word size, object sizes, stack address
    pc,                  \* position of main()
    tcb_cap, untyped, sc_cap, sched_control, error, thread_2_stack_top, regs,
                         \* locals of main()
    cslots,              \* kernel: contents of the slots of info->empty
    untypedUsed,         \* kernel: bytes already retyped out of each untyped
    tcb,                 \* kernel: the TCB object
    sc,                  \* kernel: the scheduling-context object
    t2pc,                \* position of thread_2()
    out,                 \* what has been printed
    trace,               \* history: the calls main() has completed, with their results
    writers,             \* history: which thread has written which shared object
    is_template,         \* cmake: whether the tutorial source is run through the template tool
    BUILD_SOLUTIONS,     \* cmake: the cache option that selects the solution text
    template,            \* cmake: the tutorial source file in the repository
    temp,                \* cmake: the intermediate file of CopyTutorialSource
    dest,                \* cmake: the instantiated file the user works on
    orig,                \* cmake: the record of what was last instantiated
    result,              \* cmake: how the last run of CopyTutorialSource ended
    installed,           \* history: what a run last wrote to dest
    lastStep             \* history: who took the last step on the files

vars == <<info, build, pc, tcb_cap, untyped, sc_cap, sched_control, error,
          thread_2_stack_top, regs, cslots, untypedUsed, tcb, sc, t2pc, out, trace,
          writers, is_template, BUILD_SOLUTIONS, template, temp, dest, orig, result,
          installed, lastStep>>

locals == <<tcb_cap, untyped, sc_cap, sched_control, error, thread_2_stack_top, regs>>
kernel == <<cslots, untypedUsed, tcb, sc>>
cmake == <<is_template, BUILD_SOLUTIONS, template, temp, dest, orig, result, installed,
           lastStep>>

\* a file is the sequence of its content, a missing file the empty sequence
Absent == <<>>
File(c) == <<c>>

(* --------------------------- the boot info ---------------------------- *)
\* The kernel lays the root task's CNode out as: the fixed initial caps, one
\* scheduling-control cap per node, the untyped caps, then the empty slots.
\* nodeID = nodes is a node for which the boot info holds no scheduling-control cap.
BootInfo(nodes, node, list, free) ==
    [ nodeID       |-> node,
      schedcontrol |-> [start |-> seL4_CapInitThreadPD + 1,
                        end   |-> seL4_CapInitThreadPD + 1 + nodes],
      untyped      |-> [start |-> seL4_CapInitThreadPD + 1 + nodes,
                        end   |-> seL4_CapInitThreadPD + 1 + nodes + Len(list)],
      untypedList  |-> list,
      empty        |-> [start |-> seL4_CapInitThreadPD + 1 + nodes + Len(list),
                        end   |-> seL4_CapInitThreadPD + 1 + nodes + Len(list) + free] ]

UntypedLists == UNION { [1..n -> [sizeBits : 0..MaxSizeBits]] : n \in 0..MaxUntyped }

BootInfos ==
    UNION { { BootInfo(nodes, node, list, free) :
                  node \in 0..nodes, list \in UntypedLists, free \in 0..MaxEmpty } :
            nodes \in 1..MaxNodes }

Builds ==
    [ wordSize : WordSizes,
      seL4_TCBBits : ObjectBits,
      seL4_MinSchedContextBits : ObjectBits,
      thread_2_stack : { 8 * k : k \in 0..MaxStackBase } ]

\* the memory both threads can reach: the boot info, the root CNode, the stack of
\* the new thread and the standard output
Objects == {"bootinfo", "cspace", "thread_2_stack", "stdout"}

NoRegs == [r \in RegNames |-> 0]
NoTCB == [state |-> "none", slot |-> 0, grant |-> 0, sc |-> 0, regs |-> NoRegs, loaded |-> FALSE]
NoSC  == [state |-> "none", slot |-> 0, grant |-> 0, budget |-> 0, period |-> 0,
          refills |-> 0, tcb |-> 0]

\* no build of the tutorial sources has run in the files the program starts from
NoFiles ==
    /\ is_template = FALSE /\ BUILD_SOLUTIONS = FALSE
    /\ template = File(0) /\ temp = Absent /\ dest = Absent /\ orig = Absent
    /\ result = "none" /\ installed = Absent /\ lastStep = "none"

Init ==
    /\ NoFiles
    /\ info \in BootInfos
    /\ build \in Builds
    /\ pc = "task1"
    /\ tcb_cap = 0 /\ untyped = 0 /\ sc_cap = 0 /\ error = 0 /\ thread_2_stack_top = 0
    /\ sched_control = seL4_CapNull
    /\ regs = NoRegs
    /\ cslots = [s \in info.empty.start .. info.empty.end - 1 |-> "empty"]
    /\ untypedUsed = [i \in 1..Len(info.untypedList) |-> 0]
    /\ tcb = NoTCB
    /\ sc = NoSC
    /\ t2pc = "entry"
    /\ out = <<>>
    /\ trace = <<>>
    /\ writers = [o \in Objects |-> {}]

(* ------------------------------ helpers ------------------------------- *)
\* get_untyped with the size test written > instead of >=
RECURSIVE get_untyped_loop_strict(_, _, _, _)
get_untyped_loop_strict(inf, size_bytes, i, idx) ==
    IF ~(i < inf.untyped.end) THEN ToWord(-1)
    ELSE IF BIT(inf.untypedList[idx + 1].sizeBits) > ToWord(size_bytes) THEN ToWord(i)
    ELSE get_untyped_loop_strict(inf, size_bytes, i + 1, idx + 1)

\* get_untyped: for (i = untyped.start, idx = 0; i < untyped.end; ++i, ++idx)
RECURSIVE get_untyped_loop(_, _, _, _)
get_untyped_loop(inf, size_bytes, i, idx) ==
    IF ~(i < inf.untyped.end) THEN ToWord(-1)
    ELSE IF BIT(inf.untypedList[idx + 1].sizeBits) >= ToWord(size_bytes) THEN ToWord(i)
    ELSE get_untyped_loop(inf, size_bytes, i + 1, idx + 1)

\* returns a cap to an untyped with a size at least size_bytes, or -1 if none exists
get_untyped(inf, size_bytes) ==
    get_untyped_loop(inf, size_bytes, inf.untyped.start, 0)

\* a log macro that reports the condition and carries on (ZF_LOGE_IF)
ZF_LOGE_IF(cond, next) == next

\* ZF_LOGF_IFERR(error, ...) / ZF_LOGF_IF(cond, ...): a fatal log aborts the program
ZF_LOGF_IF(cond, next) == IF cond THEN "aborted" ELSE next

ZF_LOGF_IFERR(err, next) == ZF_LOGF_IF(err # seL4_NoError, next)

(* ------------------------- the kernel interface ----------------------- *)
\* the kind of capability a CPtr of the root task's CSpace names
CapAt(c) ==
    IF c \in DOMAIN cslots THEN cslots[c]
    ELSE IF c >= info.untyped.start /\ c < info.untyped.end THEN "untyped"
    ELSE IF c >= info.schedcontrol.start /\ c < info.schedcontrol.end THEN "schedcontrol"
    ELSE IF c \in {seL4_CapInitThreadTCB, seL4_CapInitThreadCNode, seL4_CapInitThreadPD}
         THEN "init"
    ELSE "null"

\* index into untypedList of the untyped cap c
UntypedIndex(c) == c - info.untyped.start + 1

AlignUp(x, a) == ((x + a - 1) \div a) * a

\* the error codes an invocation can return: it can always fail; it can succeed
\* only when `valid`
Errors(valid) == {seL4_NoError + 1} \cup (IF valid THEN {seL4_NoError} ELSE {})

\* seL4_Untyped_Retype(service, type, size_bits, root, index, depth, offset, 1)
RetypeValid(service, size_bits, offset) ==
    /\ CapAt(service) = "untyped"
    /\ CapAt(offset) = "empty"
    /\ AlignUp(untypedUsed[UntypedIndex(service)], 2 ^ size_bits) + 2 ^ size_bits
          <= 2 ^ info.untypedList[UntypedIndex(service)].sizeBits

RetypeUsed(service, size_bits) ==
    [untypedUsed EXCEPT ![UntypedIndex(service)] = AlignUp(@, 2 ^ size_bits) + 2 ^ size_bits]

(* ------------------------------- main() ------------------------------- *)
\* `who` has written the objects `objs`
Written(who, objs) ==
    [o \in Objects |-> IF o \in objs THEN writers[o] \cup {who} ELSE writers[o]]

\* history of a completed call: its name, its (first) capability or size argument,
\* its slot (or second) argument, and what it returned
Call(op, cap, slot, ret) == [op |-> op, cap |-> cap, slot |-> slot, ret |-> ret]

\* TASK 1 as a bump allocator that advances the start of the free range
Task1Bump ==
    /\ pc = "task1"
    /\ tcb_cap' = info.empty.start
    /\ info' = [info EXCEPT !.empty.start = @ + 1]
    /\ pc' = "task2"
    /\ trace' = Append(trace, Call("next_slot", 0, 0, tcb_cap'))
    /\ UNCHANGED <<cmake, build, writers, untyped, sc_cap, sched_control, error,
                   thread_2_stack_top, regs, kernel, t2pc, out>>

\* TASK 1: tcb_cap = info->empty.start
Task1 ==
    /\ pc = "task1"
    /\ tcb_cap' = info.empty.start
    /\ pc' = "task2"
    /\ trace' = Append(trace, Call("next_slot", 0, 0, tcb_cap'))
    /\ UNCHANGED <<cmake, info, build, writers, untyped, sc_cap, sched_control, error, thread_2_stack_top,
                   regs, kernel, t2pc, out>>

\* TASK 2: untyped = get_untyped(info, BIT(seL4_TCBBits))
Task2 ==
    /\ pc = "task2"
    /\ untyped' = get_untyped(info, BIT(build.seL4_TCBBits))
    /\ pc' = "task3"
    /\ trace' = Append(trace, Call("get_untyped", BIT(build.seL4_TCBBits), 0, untyped'))
    /\ UNCHANGED <<cmake, info, build, writers, tcb_cap, sc_cap, sched_control, error, thread_2_stack_top,
                   regs, kernel, t2pc, out>>

\* TASK 3 without the ZF_LOGF_IFERR after the retype
Task3Unchecked ==
    /\ pc = "task3"
    /\ \E err \in Errors(RetypeValid(untyped, build.seL4_TCBBits, tcb_cap)) :
          /\ error' = err
          /\ IF err = seL4_NoError
             THEN /\ cslots' = [cslots EXCEPT ![tcb_cap] = "tcb"]
                  /\ untypedUsed' = RetypeUsed(untyped, build.seL4_TCBBits)
                  /\ tcb' = [NoTCB EXCEPT !.state = "unconfigured", !.slot = tcb_cap,
                                          !.grant = untyped]
             ELSE UNCHANGED <<cslots, untypedUsed, tcb>>
          /\ writers' = IF err = seL4_NoError THEN Written("main", {"cspace"}) ELSE writers
          /\ trace' = Append(trace, Call("retype_tcb", untyped, tcb_cap, err))
          /\ pc' = "task3_1"
    /\ UNCHANGED <<cmake, info, build, tcb_cap, untyped, sc_cap, sched_control,
                   thread_2_stack_top, regs, sc, t2pc, out>>

\* TASK 3: retype the untyped into a TCB in slot tcb_cap; fatal on error
Task3 ==
    /\ pc = "task3"
    /\ \E err \in Errors(RetypeValid(untyped, build.seL4_TCBBits, tcb_cap)) :
          /\ error' = err
          /\ IF err = seL4_NoError
             THEN /\ cslots' = [cslots EXCEPT ![tcb_cap] = "tcb"]
                  /\ untypedUsed' = RetypeUsed(untyped, build.seL4_TCBBits)
                  /\ tcb' = [NoTCB EXCEPT !.state = "unconfigured", !.slot = tcb_cap,
                                          !.grant = untyped]
             ELSE UNCHANGED <<cslots, untypedUsed, tcb>>
          /\ writers' = IF err = seL4_NoError THEN Written("main", {"cspace"}) ELSE writers
          /\ trace' = Append(trace, Call("retype_tcb", untyped, tcb_cap, err))
          /\ pc' = ZF_LOGF_IFERR(err, "task3_1")
    /\ UNCHANGED <<cmake, info, build, tcb_cap, untyped, sc_cap, sched_control,
                   thread_2_stack_top, regs, sc, t2pc, out>>

\* the slot after tcb_cap, with the + 1 forgotten
NextSlotSame(prev) == prev

\* the slot after tcb_cap: tcb_cap + 1
NextSlot(prev) == ToWord(prev + 1)

\* TASK 3.1: sc_cap = tcb_cap + 1
Task3_1 ==
    /\ pc = "task3_1"
    /\ sc_cap' = NextSlot(tcb_cap)
    /\ pc' = "task3_2"
    /\ trace' = Append(trace, Call("next_slot", 0, 0, sc_cap'))
    /\ UNCHANGED <<cmake, info, build, writers, tcb_cap, untyped, sched_control, error, thread_2_stack_top,
                   regs, kernel, t2pc, out>>

\* TASK 3.2: untyped = get_untyped(info, 1u << seL4_MinSchedContextBits)
Task3_2 ==
    /\ pc = "task3_2"
    /\ untyped' = get_untyped(info, ToWord(2 ^ build.seL4_MinSchedContextBits))
    /\ pc' = "task3_3"
    /\ trace' = Append(trace, Call("get_untyped", ToWord(2 ^ build.seL4_MinSchedContextBits), 0, untyped'))
    /\ UNCHANGED <<cmake, info, build, writers, tcb_cap, sc_cap, sched_control, error, thread_2_stack_top,
                   regs, kernel, t2pc, out>>

\* TASK 3.3 with a failed retype tried once more instead of aborting
Task3_3Retry ==
    /\ pc = "task3_3"
    /\ \E err \in Errors(RetypeValid(untyped, build.seL4_MinSchedContextBits, sc_cap)) :
          /\ error' = err
          /\ IF err = seL4_NoError
             THEN /\ cslots' = [cslots EXCEPT ![sc_cap] = "sc"]
                  /\ untypedUsed' = RetypeUsed(untyped, build.seL4_MinSchedContextBits)
                  /\ sc' = [NoSC EXCEPT !.state = "unbound", !.slot = sc_cap,
                                        !.grant = untyped]
             ELSE UNCHANGED <<cslots, untypedUsed, sc>>
          /\ writers' = IF err = seL4_NoError THEN Written("main", {"cspace"}) ELSE writers
          /\ trace' = Append(trace, Call("retype_sc", untyped, sc_cap, err))
          /\ pc' = IF err # seL4_NoError /\ trace[Len(trace)].op # "retype_sc"
                   THEN "task3_3"
                   ELSE ZF_LOGF_IFERR(err, "task3_4")
    /\ UNCHANGED <<cmake, info, build, tcb_cap, untyped, sc_cap, sched_control,
                   thread_2_stack_top, regs, tcb, t2pc, out>>

\* TASK 3.3: retype the untyped into a scheduling context in slot sc_cap; fatal on error
Task3_3 ==
    /\ pc = "task3_3"
    /\ \E err \in Errors(RetypeValid(untyped, build.seL4_MinSchedContextBits, sc_cap)) :
          /\ error' = err
          /\ IF err = seL4_NoError
             THEN /\ cslots' = [cslots EXCEPT ![sc_cap] = "sc"]
                  /\ untypedUsed' = RetypeUsed(untyped, build.seL4_MinSchedContextBits)
                  /\ sc' = [NoSC EXCEPT !.state = "unbound", !.slot = sc_cap,
                                        !.grant = untyped]
             ELSE UNCHANGED <<cslots, untypedUsed, sc>>
          /\ writers' = IF err = seL4_NoError THEN Written("main", {"cspace"}) ELSE writers
          /\ trace' = Append(trace, Call("retype_sc", untyped, sc_cap, err))
          /\ pc' = ZF_LOGF_IFERR(err, "task3_4")
    /\ UNCHANGED <<cmake, info, build, tcb_cap, untyped, sc_cap, sched_control,
                   thread_2_stack_top, regs, tcb, t2pc, out>>

\* the scheduling-control cap of node 0, whatever the node
SchedControlFirst(inf) == ToWord(inf.schedcontrol.start)

\* info->schedcontrol.start + info->nodeID
SchedControlOf(inf) == ToWord(inf.schedcontrol.start + inf.nodeID)

\* TASK 3.4: sched_control = info->schedcontrol.start + info->nodeID; fatal if null
Task3_4 ==
    /\ pc = "task3_4"
    /\ sched_control' = SchedControlOf(info)
    /\ pc' = ZF_LOGF_IF(sched_control' = seL4_CapNull, "task3_5")
    /\ trace' = Append(trace, Call("sched_control", info.nodeID, 0, sched_control'))
    /\ UNCHANGED <<cmake, info, build, writers, tcb_cap, untyped, sc_cap, error, thread_2_stack_top,
                   regs, kernel, t2pc, out>>

\* a budget of twice the period
PolicyBudgetDouble == 20 * US_IN_MS

\* the budget, period and extra refills main() passes to seL4_SchedControl_Configure
PolicyBudget == 10 * US_IN_MS
PolicyPeriod == 10 * US_IN_MS
PolicyRefills == 0

\* TASK 3.5 issued a second time after the first has returned
Task3_5Twice ==
    /\ pc = "task3_5"
    /\ \E err \in Errors(CapAt(sched_control) = "schedcontrol" /\ CapAt(sc_cap) = "sc") :
          /\ error' = err
          /\ IF err = seL4_NoError
             THEN sc' = [sc EXCEPT !.state = "bound", !.budget = PolicyBudget,
                                   !.period = PolicyPeriod, !.refills = PolicyRefills]
             ELSE UNCHANGED sc
          /\ trace' = Append(trace, Call("bind_policy", sched_control, sc_cap, err))
          /\ pc' = IF trace[Len(trace)].op # "bind_policy"
                   THEN ZF_LOGF_IFERR(err, "task3_5")
                   ELSE ZF_LOGF_IFERR(err, "configure")
    /\ UNCHANGED <<cmake, info, build, writers, tcb_cap, untyped, sc_cap, sched_control,
                   thread_2_stack_top, regs, cslots, untypedUsed, tcb, t2pc, out>>

\* TASK 3.5: seL4_SchedControl_Configure(sched_control, sc_cap, budget, period, 0)
Task3_5 ==
    /\ pc = "task3_5"
    /\ \E err \in Errors(CapAt(sched_control) = "schedcontrol" /\ CapAt(sc_cap) = "sc") :
          /\ error' = err
          /\ IF err = seL4_NoError
             THEN sc' = [sc EXCEPT !.state = "bound", !.budget = PolicyBudget,
                                   !.period = PolicyPeriod, !.refills = PolicyRefills]
             ELSE UNCHANGED sc
          /\ trace' = Append(trace, Call("bind_policy", sched_control, sc_cap, err))
          /\ pc' = ZF_LOGF_IFERR(err, "configure")
    /\ UNCHANGED <<cmake, info, build, writers, tcb_cap, untyped, sc_cap, sched_control,
                   thread_2_stack_top, regs, cslots, untypedUsed, tcb, t2pc, out>>

\* main() with the seL4_TCB_Configure call left out
ConfigureSkipped ==
    /\ pc = "configure"
    /\ pc' = "stack"
    /\ UNCHANGED <<cmake, info, build, writers, locals, kernel, t2pc, out, trace>>

\* seL4_TCB_Configure(tcb_cap, seL4_CapNull, prio, sc_cap, cspace_cap, ..., pd_cap, ...)
Configure ==
    /\ pc = "configure"
    /\ \E err \in Errors(CapAt(tcb_cap) = "tcb" /\ CapAt(sc_cap) = "sc" /\ sc.tcb = 0) :
          /\ error' = err
          /\ IF err = seL4_NoError
             THEN /\ tcb' = [tcb EXCEPT !.state = "configured", !.sc = sc_cap]
                  /\ sc' = [sc EXCEPT !.tcb = tcb_cap]
             ELSE UNCHANGED <<tcb, sc>>
          /\ trace' = Append(trace, Call("configure", tcb_cap, sc_cap, err))
          /\ pc' = ZF_LOGF_IFERR(err, "stack")
    /\ UNCHANGED <<cmake, info, build, writers, tcb_cap, untyped, sc_cap, sched_control,
                   thread_2_stack_top, regs, cslots, untypedUsed, t2pc, out>>

\* the alignment requirement with the * 2 forgotten
stack_alignment_word == build.wordSize

\* stack_alignment_requirement = sizeof(seL4_Word) * 2
stack_alignment_requirement == build.wordSize * 2

\* thread_2_stack_top = (uintptr_t)thread_2_stack + sizeof(thread_2_stack); fatal if the
\* top is not a multiple of stack_alignment_requirement
StackTop ==
    /\ pc = "stack"
    /\ thread_2_stack_top' = ToWord(build.thread_2_stack + THREAD_2_STACK_SIZE * SizeofUint64)
    /\ pc' = ZF_LOGF_IF(thread_2_stack_top' % stack_alignment_requirement # 0, "task4")
    /\ trace' = Append(trace, Call("stack_check", thread_2_stack_top', 0, IF pc' = "aborted" THEN 1 ELSE 0))
    /\ UNCHANGED <<cmake, info, build, writers, tcb_cap, untyped, sc_cap, sched_control, error,
                   regs, kernel, t2pc, out>>

\* TASK 4: regs = { .eip = thread_2, .esp = thread_2_stack_top }
Task4 ==
    /\ pc = "task4"
    /\ regs' = [NoRegs EXCEPT !.eip = thread_2, !.esp = thread_2_stack_top]
    /\ pc' = "task5"
    /\ trace' = Append(trace, Call("regs", regs'.eip, regs'.esp, 0))
    /\ UNCHANGED <<cmake, info, build, writers, tcb_cap, untyped, sc_cap, sched_control, error,
                   thread_2_stack_top, kernel, t2pc, out>>

\* the order of the registers in seL4_UserContext, and the count main() passes
RegOrder == <<"eip", "esp", "eflags", "eax", "ebx", "ecx", "edx", "esi", "edi", "ebp",
              "tls_base", "fs", "gs">>
RegCount == 2

\* the registers of a thread after the first `count` registers of `frame` are written
WriteRegisters(old, frame, count) ==
    [r \in RegNames |-> IF \E k \in 1..count : RegOrder[k] = r THEN frame[r] ELSE old[r]]

\* TASK 5 with resume_target = 1: the write also resumes the thread
Task5Resuming ==
    /\ pc = "task5"
    /\ \E err \in Errors(CapAt(tcb_cap) = "tcb") :
          /\ error' = err
          /\ IF err = seL4_NoError
             THEN tcb' = [tcb EXCEPT !.regs = WriteRegisters(@, regs, RegCount),
                                     !.loaded = TRUE, !.state = "runnable"]
             ELSE UNCHANGED tcb
          /\ trace' = Append(trace, Call("load_registers", tcb_cap, regs.esp, err))
          /\ pc' = ZF_LOGF_IFERR(err, "resume")
    /\ UNCHANGED <<cmake, info, build, writers, tcb_cap, untyped, sc_cap, sched_control,
                   thread_2_stack_top, regs, cslots, untypedUsed, sc, t2pc, out>>

\* TASK 5: seL4_TCB_WriteRegisters(tcb_cap, 0, 0, 2, &regs): writes the first two
\* registers of the frame (eip, esp) and, resume_target being 0, does not resume
Task5 ==
    /\ pc = "task5"
    /\ \E err \in Errors(CapAt(tcb_cap) = "tcb") :
          /\ error' = err
          /\ IF err = seL4_NoError
             THEN tcb' = [tcb EXCEPT !.regs = WriteRegisters(@, regs, RegCount),
                                     !.loaded = TRUE]
             ELSE UNCHANGED tcb
          /\ trace' = Append(trace, Call("load_registers", tcb_cap, regs.esp, err))
          /\ pc' = ZF_LOGF_IFERR(err, "resume")
    /\ UNCHANGED <<cmake, info, build, writers, tcb_cap, untyped, sc_cap, sched_control,
                   thread_2_stack_top, regs, cslots, untypedUsed, sc, t2pc, out>>

\* seL4_TCB_Resume(tcb_cap) issued a second time after the first has returned
ResumeTwice ==
    /\ pc = "resume"
    /\ \E err \in Errors(CapAt(tcb_cap) = "tcb") :
          /\ error' = err
          /\ IF err = seL4_NoError
             THEN tcb' = [tcb EXCEPT !.state = "runnable"]
             ELSE UNCHANGED tcb
          /\ trace' = Append(trace, Call("resume", tcb_cap, 0, err))
          /\ pc' = IF trace = <<>> \/ trace[Len(trace)].op # "resume"
                   THEN ZF_LOGF_IFERR(err, "resume")
                   ELSE ZF_LOGF_IFERR(err, "hello")
    /\ UNCHANGED <<cmake, info, build, writers, tcb_cap, untyped, sc_cap, sched_control,
                   thread_2_stack_top, regs, cslots, untypedUsed, sc, t2pc, out>>

\* main() with the seL4_TCB_Resume call left out
ResumeSkipped ==
    /\ pc = "resume"
    /\ pc' = "hello"
    /\ UNCHANGED <<cmake, info, build, writers, locals, kernel, t2pc, out, trace>>

\* seL4_TCB_Resume(tcb_cap); fatal on error
Resume ==
    /\ pc = "resume"
    /\ \E err \in Errors(CapAt(tcb_cap) = "tcb") :
          /\ error' = err
          /\ IF err = seL4_NoError
             THEN tcb' = [tcb EXCEPT !.state = "runnable"]
             ELSE UNCHANGED tcb
          /\ trace' = Append(trace, Call("resume", tcb_cap, 0, err))
          /\ pc' = ZF_LOGF_IFERR(err, "hello")
    /\ UNCHANGED <<cmake, info, build, writers, tcb_cap, untyped, sc_cap, sched_control,
                   thread_2_stack_top, regs, cslots, untypedUsed, sc, t2pc, out>>

\* printf("main: hello world\n"); return 0
Hello ==
    /\ pc = "hello"
    /\ out' = Append(out, "main: hello world")
    /\ pc' = "done"
    /\ trace' = Append(trace, Call("printf", 0, 0, 0))
    /\ writers' = Written("main", {"stdout"})
    /\ UNCHANGED <<cmake, info, build, locals, kernel, t2pc>>

(* ----------------------------- thread_2() ----------------------------- *)
\* the new thread runs once it is runnable on a configured scheduling context,
\* from the instruction pointer written to it
Thread2Print ==
    /\ tcb.state = "runnable" /\ tcb.regs.eip = thread_2
    /\ tcb.sc # 0 /\ sc.state = "bound"
    /\ t2pc = "entry"
    /\ out' = Append(out, "thread_2: hallo wereld")
    /\ t2pc' = "loop"
    /\ writers' = Written("thread_2", {"stdout", "thread_2_stack"})
    /\ UNCHANGED <<cmake, info, build, pc, locals, kernel, trace>>

\* while (1);
Thread2Spin ==
    /\ t2pc = "loop"
    /\ UNCHANGED vars

\* the steps of main()
MainNext ==
    \/ Task1 \/ Task2 \/ Task3 \/ Task3_1 \/ Task3_2 \/ Task3_3 \/ Task3_4 \/ Task3_5
    \/ Configure \/ StackTop \/ Task4 \/ Task5 \/ Resume \/ Hello

Next ==
    \/ Task1 \/ Task2 \/ Task3 \/ Task3_1 \/ Task3_2 \/ Task3_3 \/ Task3_4 \/ Task3_5
    \/ Configure \/ StackTop \/ Task4 \/ Task5 \/ Resume \/ Hello
    \/ Thread2Print \/ Thread2Spin

Spec == Init /\ [][Next]_vars

\* main() runs to its end without blocking, and the scheduler gives the new thread,
\* once runnable at the priority of main(), the processor
FairSpec == Spec /\ WF_vars(MainNext) /\ WF_vars(Thread2Print)

(* ------------------- cmake: instantiating a tutorial source ----------- *)
\* the versions a template goes through, and what a file can hold
Versions == 0..MaxVersion
Contents == 0..(2 * MaxVersion + 1)

\* the template tool renders a template as the exercise or, with --solution, as
\* the solution
TemplateTool(file, solution) == File(2 * file[1] + (IF solution THEN 1 ELSE 0))

\* diff -q: 0 for equal files, 1 for different files, 2 when a file is missing
DiffFiles(one, two) ==
    IF one = Absent \/ two = Absent THEN 2
    ELSE IF one = two THEN 0 ELSE 1

\* if(<value>) of cmake: a number is true unless it is 0
IsTrue(value) == value # 0

\* CopyIfUpdated that overwrites the output whenever the template was updated
CopyIfUpdatedForce(input, output, old, copied) ==
    LET template_updated == DiffFiles(input, old)
        do_update == IF output # Absent THEN IsTrue(template_updated) ELSE TRUE
    IN  IF ~do_update
        THEN [output |-> output, old |-> old, input |-> Absent, result |-> "ok"]
        ELSE IF copied = 0
        THEN [output |-> output, old |-> old, input |-> input, result |-> "fatal_copy"]
        ELSE IF copied = 1
        THEN [output |-> input, old |-> old, input |-> input, result |-> "fatal_copy"]
        ELSE [output |-> input, old |-> input, input |-> Absent, result |-> "ok"]

\* CopyIfUpdated that does not remove its input
CopyIfUpdatedKeep(input, output, old, copied) ==
    LET template_updated == DiffFiles(input, old)
        instance_updated == DiffFiles(output, old)
        do_update == IF output # Absent THEN IsTrue(template_updated) ELSE TRUE
    IN  IF output # Absent /\ IsTrue(template_updated) /\ IsTrue(instance_updated)
        THEN [output |-> output, old |-> old, input |-> input, result |-> "fatal_conflict"]
        ELSE IF ~do_update
        THEN [output |-> output, old |-> old, input |-> input, result |-> "ok"]
        ELSE IF copied = 0
        THEN [output |-> output, old |-> old, input |-> input, result |-> "fatal_copy"]
        ELSE IF copied = 1
        THEN [output |-> input, old |-> old, input |-> input, result |-> "fatal_copy"]
        ELSE [output |-> input, old |-> input, input |-> input, result |-> "ok"]

\* CopyIfUpdated(input, output, old): the three files after the call and how it
\* ended; copied is the number of Copy calls that succeed (each may fail, and a
\* failed Copy is fatal and leaves its destination as it was)
CopyIfUpdated(input, output, old, copied) ==
    LET template_updated == DiffFiles(input, old)
        instance_updated == DiffFiles(output, old)
        do_update == IF output # Absent THEN IsTrue(template_updated) ELSE TRUE
    IN  IF output # Absent /\ IsTrue(template_updated) /\ IsTrue(instance_updated)
        THEN [output |-> output, old |-> old, input |-> input, result |-> "fatal_conflict"]
        ELSE IF ~do_update
        THEN [output |-> output, old |-> old, input |-> Absent, result |-> "ok"]
        ELSE IF copied = 0
        THEN [output |-> output, old |-> old, input |-> input, result |-> "fatal_copy"]
        ELSE IF copied = 1
        THEN [output |-> input, old |-> old, input |-> input, result |-> "fatal_copy"]
        ELSE [output |-> input, old |-> input, input |-> Absent, result |-> "ok"]

\* what CopyTutorialSource generates into temp
Generated ==
    IF is_template THEN TemplateTool(template, BUILD_SOLUTIONS) ELSE template

\* one run of CopyTutorialSource: generate temp (the tool or the copy may fail,
\* which is fatal), then CopyIfUpdated(temp, dest, orig)
CopyTutorialSource ==
    \E generated \in BOOLEAN, copied \in 0..2 :
        /\ lastStep' = "run"
        /\ IF ~generated
           THEN /\ result' = "fatal_generate"
                /\ UNCHANGED <<temp, dest, orig, installed>>
           ELSE LET after == CopyIfUpdated(Generated, dest, orig, copied)
                IN  /\ temp' = after.input
                    /\ dest' = after.output
                    /\ orig' = after.old
                    /\ result' = after.result
                    /\ installed' = IF after.output # dest THEN after.output ELSE installed
        /\ UNCHANGED <<is_template, BUILD_SOLUTIONS, template>>
        /\ UNCHANGED <<info, build, pc, locals, kernel, t2pc, out, trace, writers>>

\* the maintainers change the tutorial source
TemplateChange ==
    \E v \in Versions :
        /\ File(v) # template
        /\ template' = File(v)
        /\ lastStep' = "template"
        /\ UNCHANGED <<is_template, BUILD_SOLUTIONS, temp, dest, orig, result, installed>>
        /\ UNCHANGED <<info, build, pc, locals, kernel, t2pc, out, trace, writers>>

\* the user edits the instantiated file
UserEdit ==
    \E c \in Contents :
        /\ dest # Absent
        /\ File(c) # dest
        /\ dest' = File(c)
        /\ lastStep' = "edit"
        /\ UNCHANGED <<is_template, BUILD_SOLUTIONS, template, temp, orig, result, installed>>
        /\ UNCHANGED <<info, build, pc, locals, kernel, t2pc, out, trace, writers>>

\* main() has not started while the sources are instantiated
InitCopy ==
    /\ is_template \in BOOLEAN /\ BUILD_SOLUTIONS \in BOOLEAN
    /\ template \in { File(v) : v \in Versions }
    /\ temp = Absent /\ dest = Absent /\ orig = Absent
    /\ result = "none" /\ installed = Absent /\ lastStep = "none"
    /\ info = BootInfo(MaxNodes, 0, <<>>, 0)
    /\ build = CHOOSE b \in Builds : TRUE
    /\ pc = "task1"
    /\ tcb_cap = 0 /\ untyped = 0 /\ sc_cap = 0 /\ error = 0 /\ thread_2_stack_top = 0
    /\ sched_control = seL4_CapNull
    /\ regs = NoRegs
    /\ cslots = [s \in info.empty.start .. info.empty.end - 1 |-> "empty"]
    /\ untypedUsed = [i \in 1..Len(info.untypedList) |-> 0]
    /\ tcb = NoTCB
    /\ sc = NoSC
    /\ t2pc = "entry"
    /\ out = <<>>
    /\ trace = <<>>
    /\ writers = [o \in Objects |-> {}]

NextCopy == CopyTutorialSource \/ TemplateChange \/ UserEdit

SpecCopy == InitCopy /\ [][NextCopy]_vars


(* ============================== properties ============================ *)
\* the untyped caps of the boot info whose size 2^sizeBits is at least R
Fitting(R) ==
    { c \in info.untyped.start .. info.untyped.end - 1 :
        2 ^ info.untypedList[c - info.untyped.start + 1].sizeBits >= R }

Entries == 1..Len(trace)
Last == trace[Len(trace)]
\* the calls of main() that report an error code
Failing == {"retype_tcb", "retype_sc", "bind_policy", "configure", "stack_check",
            "load_registers", "resume"}
Succeeded(i, op) == trace[i].op = op /\ trace[i].ret = seL4_NoError
StackTopAddress == build.thread_2_stack + THREAD_2_STACK_SIZE * SizeofUint64

\* C1: every get_untyped call returns the lowest-numbered untyped cap whose size
\* 2^sizeBits is at least the requested size, and returns -1 exactly when the boot
\* info lists no such untyped.
C1_FirstFit ==
    \A i \in Entries : trace[i].op = "get_untyped" =>
        IF Fitting(trace[i].cap) = {}
        THEN trace[i].ret = WordMod - 1
        ELSE /\ trace[i].ret \in Fitting(trace[i].cap)
             /\ \A c \in Fitting(trace[i].cap) : trace[i].ret <= c

\* a lookup that skipped a too small untyped and returned a later one
C1_Witness ==
    \E i \in Entries :
        /\ trace[i].op = "get_untyped"
        /\ trace[i].ret \in Fitting(trace[i].cap)
        /\ trace[i].ret > info.untyped.start

\* C2: the TCB and the scheduling context are always built from two different
\* untypeds (a selected untyped is never selected again).
C2_DistinctGrants ==
    (tcb.state # "none" /\ sc.state # "none") => tcb.grant # sc.grant

\* C3: the k-th slot handed out, for k up to the size of info->empty, is
\* empty.start + k - 1, so the slots handed out are strictly increasing and pairwise
\* distinct, and the TCB and the scheduling context are bound to different slots.
IsNextSlot(e) == e.op = "next_slot"
SlotsHandedOut == SelectSeq(trace, IsNextSlot)
C3_SlotsIncreasing ==
    /\ \A k \in 1..Len(SlotsHandedOut) :
          k <= info.empty.end - info.empty.start =>
            /\ SlotsHandedOut[k].ret = info.empty.start + k - 1
            /\ \A j \in 1..k - 1 : SlotsHandedOut[j].ret < SlotsHandedOut[k].ret
    /\ tcb.state # "none" => tcb.slot = info.empty.start
    /\ sc.state # "none" => sc.slot = info.empty.start + 1
    /\ (tcb.state # "none" /\ sc.state # "none") => tcb.slot # sc.slot

\* both objects exist, in the first two slots of the range
C3_Witness ==
    /\ Len(SlotsHandedOut) = 2
    /\ tcb.state # "none" /\ sc.state # "none"
    /\ tcb.slot = info.empty.start /\ sc.slot = info.empty.start + 1

C5_FailureAborts ==
    /\ \A i \in Entries :
          (\/ trace[i].op \in Failing /\ trace[i].ret # seL4_NoError
           \/ trace[i].op = "sched_control" /\ trace[i].ret = seL4_CapNull)
          => /\ i = Len(trace)
             /\ pc = "aborted"
    /\ pc = "aborted" => tcb.state # "runnable" /\ t2pc = "entry" /\ out = <<>>

\* the last step, the resume, failed
C5_Witness ==
    /\ pc = "aborted"
    /\ Last.op = "resume" /\ Last.ret # seL4_NoError
    /\ tcb.state = "configured"

C7_AlignedStackOnly ==
    /\ \A i \in Entries : trace[i].op = "stack_check" =>
          /\ trace[i].cap = StackTopAddress
          /\ trace[i].ret = 0 <=> StackTopAddress % (2 * build.wordSize) = 0
    /\ \A i \in Entries : trace[i].op = "load_registers" =>
          /\ trace[i].slot = StackTopAddress
          /\ trace[i].slot % (2 * build.wordSize) = 0
    /\ IF tcb.loaded
       THEN tcb.regs.esp = StackTopAddress /\ tcb.regs.esp % (2 * build.wordSize) = 0
       ELSE tcb.regs = NoRegs

\* a misaligned stack top has been rejected
C7_Witness ==
    /\ pc = "aborted"
    /\ Last.op = "stack_check"
    /\ StackTopAddress % (2 * build.wordSize) # 0
    /\ tcb.regs = NoRegs

\* C8: no slot at or beyond info->empty.end is handed out or passed as the
\* destination of a retype.
C8_SlotsInRange ==
    \A i \in Entries :
        /\ trace[i].op = "next_slot" => trace[i].ret < info.empty.end
        /\ trace[i].op \in {"retype_tcb", "retype_sc"} => trace[i].slot < info.empty.end

\* C9: when no untyped is large enough for a request, get_untyped returns -1, the
\* retype issued with it fails and is the last step: the program is aborted, the
\* requested object does not exist and the destination slot holds nothing.
C9_NoSuitableGrantFatal ==
    \A i \in Entries :
        (trace[i].op = "get_untyped" /\ Fitting(trace[i].cap) = {}) =>
            /\ trace[i].ret = WordMod - 1
            /\ i < Len(trace) =>
                  /\ i + 1 = Len(trace)
                  /\ trace[i + 1].op \in {"retype_tcb", "retype_sc"}
                  /\ trace[i + 1].cap = trace[i].ret
                  /\ trace[i + 1].ret # seL4_NoError
                  /\ pc = "aborted"
                  /\ CapAt(trace[i + 1].slot) \notin {"tcb", "sc"}
                  /\ IF trace[i + 1].op = "retype_tcb"
                     THEN tcb.state = "none"
                     ELSE sc.state = "none"

\* the TCB was built, no untyped is large enough for the scheduling context, and
\* the retype issued with -1 has failed
C9_Witness ==
    /\ Len(trace) >= 2
    /\ Last.op = "retype_sc"
    /\ trace[Len(trace) - 1].op = "get_untyped"
    /\ Fitting(trace[Len(trace) - 1].cap) = {}
    /\ info.untypedList # <<>>
    /\ pc = "aborted"

Calls(op) == Cardinality({i \in Entries : trace[i].op = op})

HasControl == info.nodeID < info.schedcontrol.end - info.schedcontrol.start

\* C12: bind_policy is issued on the cap schedcontrol.start + nodeID and succeeds
\* only when that cap lies inside the scheduling-control range; for a node without
\* such a cap the bind fails, it is the last step, and neither the scheduling
\* context nor the thread is configured.
C12_SchedControlOfNode ==
    /\ \A i \in Entries : trace[i].op = "bind_policy" =>
          /\ trace[i].cap = info.schedcontrol.start + info.nodeID
          /\ trace[i].ret = seL4_NoError =>
                /\ trace[i].cap >= info.schedcontrol.start
                /\ trace[i].cap < info.schedcontrol.end
    /\ ~HasControl =>
          /\ sc.state # "bound" /\ tcb.state \in {"none", "unconfigured"}
          /\ \A i \in Entries : trace[i].op = "bind_policy" =>
                i = Len(trace) /\ trace[i].ret # seL4_NoError /\ pc = "aborted"

\* the bind was attempted for a node without a scheduling-control cap and failed
C12_Witness ==
    /\ ~HasControl
    /\ pc = "aborted"
    /\ Last.op = "bind_policy" /\ sc.state = "unbound"

\* C13: load_registers writes the instruction pointer (thread_2) and the stack
\* pointer (the stack top) and nothing else: every other register of the thread
\* stays zero, and the write leaves the run state configured (the thread is not
\* started by it; only a successful resume makes it runnable).
C13_WritesOnlyIpSp ==
    /\ \A r \in RegNames \ {"eip", "esp"} : tcb.regs[r] = 0
    /\ IF tcb.loaded
       THEN tcb.regs.eip = thread_2 /\ tcb.regs.esp = StackTopAddress
       ELSE tcb.regs.eip = 0 /\ tcb.regs.esp = 0
    /\ (trace # <<>> /\ Last.op = "load_registers") =>
          tcb.state = "configured" /\ t2pc = "entry"
    /\ tcb.state = "runnable" => \E i \in Entries : Succeeded(i, "resume")

\* the registers have just been written
C13_Witness ==
    /\ trace # <<>> /\ Succeeded(Len(trace), "load_registers")
    /\ tcb.loaded /\ tcb.regs.eip = thread_2 /\ tcb.regs.esp = StackTopAddress
    /\ tcb.state = "configured"

\* C14: every step that can fail is performed at most once (a failed step is not
\* retried); when it fails, no kernel object changes (no untyped is consumed, no
\* slot is filled, the TCB and the scheduling context stay as they were) and the
\* program aborts; when a kernel call succeeds, its object does change.
C14_AllOrNothing ==
    [][ (trace' # trace /\ trace'[Len(trace')].op \in Failing) =>
           /\ \A i \in Entries : trace[i].op # trace'[Len(trace')].op
           /\ trace'[Len(trace')].ret # seL4_NoError =>
                 /\ UNCHANGED <<cslots, untypedUsed, tcb, sc>>
                 /\ pc' = "aborted"
           /\ (trace'[Len(trace')].ret = seL4_NoError
                 /\ trace'[Len(trace')].op # "stack_check") =>
                 <<cslots, untypedUsed, tcb, sc>>' # <<cslots, untypedUsed, tcb, sc>> ]_vars

\* the retype of the scheduling context has failed after the TCB was built: the TCB
\* is as it was, no scheduling context exists and its slot is still empty
C14_Witness ==
    /\ pc = "aborted"
    /\ Last.op = "retype_sc" /\ Last.ret # seL4_NoError
    /\ tcb.state = "unconfigured" /\ sc.state = "none"
    /\ CapAt(sc_cap) = "empty"
    /\ Calls("retype_sc") = 1

\* C15: no step of main() or of thread_2() changes the boot info (the untyped list,
\* the bounds of the free slot range, the scheduling-control range, the node), and
\* neither thread is recorded as a writer of it.
C15_BootInfoReadOnly ==
    [][ info' = info /\ writers'["bootinfo"] = {} ]_vars

\* slots were taken, untypeds were looked up and the scheduling-control cap was
\* computed from the boot info
C15_Witness ==
    /\ Calls("next_slot") = 2 /\ Calls("get_untyped") = 2 /\ Calls("sched_control") = 1
    /\ writers["bootinfo"] = {}

\* C16 (as claimed): thread_2 takes no step before the resume has succeeded, and no
\* shared object is written by both main() and thread_2.
C16_NoSharedWrites ==
    /\ t2pc # "entry" => \E i \in Entries : Succeeded(i, "resume")
    /\ \A o \in Objects : Cardinality(writers[o]) <= 1

\* C16 (amended): thread_2 takes no step and writes nothing before the resume has
\* succeeded; afterwards the standard output is the only object both threads
\* write (each prints its greeting, in either order); the stack of the new thread
\* is written by thread_2 alone, the root CNode by main() alone (through the
\* retypes, before the resume), and the boot info by neither.
C16_OnlyStdoutShared ==
    /\ (t2pc # "entry" \/ \E o \in Objects : "thread_2" \in writers[o]) =>
          /\ \E i \in Entries : Succeeded(i, "resume")
          /\ tcb.state = "runnable"
    /\ \A o \in Objects : Cardinality(writers[o]) > 1 => o = "stdout"
    /\ writers["thread_2_stack"] \subseteq {"thread_2"}
    /\ writers["cspace"] \subseteq {"main"}
    /\ writers["bootinfo"] = {}

\* thread_2 printed before main() did: the two greetings interleave
C16_Witness ==
    /\ out = <<"thread_2: hallo wereld", "main: hello world">>
    /\ writers["stdout"] = {"main", "thread_2"}

\* the calls of main() that can fail, in the order main() completed them
IsFailing(e) == e.op \in Failing
Steps == SelectSeq(trace, IsFailing)

\* C20: main() always comes to an end; it is aborted only by a failed step, so when
\* every step succeeds it returns, having performed construct(thread),
\* construct(scheduling context), bind_policy, configure, the stack check,
\* load_registers and resume in this order, each once, and having printed its
\* greeting; once main() has returned the new thread eventually prints its payload,
\* and it never leaves the loop of its entry function.
C20_Terminates ==
    /\ [](pc = "aborted" =>
            \/ Last.op \in Failing /\ Last.ret # seL4_NoError
            \/ Last.op = "sched_control" /\ Last.ret = seL4_CapNull)
    /\ [](pc = "done" =>
            /\ [k \in 1..Len(Steps) |-> Steps[k].op] =
                  <<"retype_tcb", "retype_sc", "bind_policy", "configure", "stack_check",
                    "load_registers", "resume">>
            /\ \A k \in 1..Len(Steps) : Steps[k].ret = seL4_NoError
            /\ \E k \in 1..Len(out) : out[k] = "main: hello world")
    /\ <>(pc \in {"done", "aborted"})
    /\ (pc = "done") ~> (t2pc = "loop" /\ \E k \in 1..Len(out) : out[k] = "thread_2: hallo wereld")
    /\ [][t2pc = "loop" => t2pc' = "loop"]_vars

\* main() has returned and the new thread has printed after it and spins
C20_Witness ==
    /\ pc = "done" /\ t2pc = "loop"
    /\ out = <<"main: hello world", "thread_2: hallo wereld">>

\* a run of CopyTutorialSource that reached CopyIfUpdated
RunStep == lastStep' = "run" /\ result' # "fatal_generate"

\* C17: a CopyIfUpdated run on an existing output whose input differs from old and
\* whose output differs from old ends in the fatal error, and leaves both the
\* output and old as they were.
C17_ConflictFatal ==
    [][ (RunStep /\ dest # Absent /\ Generated # orig /\ dest # orig)
            => (result' = "fatal_conflict" /\ dest' = dest /\ orig' = orig) ]_vars

\* a run has just refused to overwrite an edited output with an updated template
C17_Witness ==
    /\ lastStep = "run" /\ result = "fatal_conflict"
    /\ dest # Absent /\ orig # Absent /\ temp # Absent
    /\ temp # orig /\ dest # orig

C19_EditNeverLost ==
    [][ (lastStep' = "run" /\ dest # Absent /\ dest' # dest)
            => (dest = orig /\ dest = installed) ]_vars

====
